---- MODULE Spec2Model ----
(***************************************************************************)
(* A model of src/pages/Home.tsx: the Home component's four state cells    *)
(* (image, analysis, loading, error), its startup effect, its two user     *)
(* controls with their asynchronous completions, and the pure function     *)
(* formatAnalysis.                                                         *)
(*                                                                         *)
(* Strings that formatAnalysis inspects are sequences of one-character     *)
(* strings.  Strings the component only stores and compares (error         *)
(* messages, data URLs, analysis texts) are TLA+ strings or tagged records.*)
(***************************************************************************)
EXTENDS Integers, Sequences, FiniteSets, TLC

VARIABLES
    image,      \* useState<string | null>(null)        Home.tsx:45
    analysis,   \* useState<string>('')                 Home.tsx:46
    loading,    \* useState(false)                      Home.tsx:47
    error,      \* useState<string | null>(null)        Home.tsx:48
    pcLoad,     \* position of the startup effect's loadDefaultContent
    readers,    \* FileReader reads started by handleImageUpload, not yet ended
    requests,   \* handleAnalyze calls awaiting analyzeImage
    nFiles,     \* number of files selected so far
    nCalls,     \* number of handleAnalyze calls so far
    last,       \* the step taken last, with what it was given (history)
    text,       \* formatAnalysis: the argument
    segments,   \* formatAnalysis: the returned array
    fpc         \* formatAnalysis: "input" before the call, "done" after

vars == <<image, analysis, loading, error, pcLoad, readers, requests,
          nFiles, nCalls, last, text, segments, fpc>>

uiVars == <<image, analysis, loading, error, pcLoad, readers, requests,
            nFiles, nCalls, last>>

fmtVars == <<text, segments, fpc>>

----------------------------------------------------------------------------
(* Bounds of the model. *)

\* longest input text given to formatAnalysis, in characters
MaxLen == 5

\* number of files the user selects in one run
MaxFiles == 2

\* number of handleAnalyze calls in one run
MaxCalls == 2

----------------------------------------------------------------------------
(* formatAnalysis, Home.tsx:132-178 *)

\* the characters the inputs are drawn from: one of each class the code tells apart
Alphabet == {"-", ":", "1", ".", " ", "*", "a", "\n"}

\* the character class of the regular expression of line 135: asterisk,
\* underscore, hash and backtick (written "backtick": the one-character
\* string is not a TLA+ string)
Decoration == {"*", "_", "#", "backtick"}

\* what String.prototype.trim removes and \s matches, as far as the inputs go
WhiteSpace == {" ", "\t", "\r", "\n"}

\* the character class \d
Digit == {"0", "1", "2", "3", "4", "5", "6", "7", "8", "9"}

\* the index of the first element of s at or after i that is in set S, or Len(s)+1
RECURSIVE FirstIn(_, _, _)
FirstIn(s, S, i) ==
    IF i > Len(s) THEN Len(s) + 1
    ELSE IF s[i] \in S THEN i
    ELSE FirstIn(s, S, i + 1)

\* the index of the first element of s at or after i that is not in set S, or Len(s)+1
RECURSIVE FirstNotIn(_, _, _)
FirstNotIn(s, S, i) ==
    IF i > Len(s) THEN Len(s) + 1
    ELSE IF s[i] \notin S THEN i
    ELSE FirstNotIn(s, S, i + 1)

\* the index of the last element of s at or before i that is not in set S, or 0
RECURSIVE LastNotIn(_, _, _)
LastNotIn(s, S, i) ==
    IF i < 1 THEN 0
    ELSE IF s[i] \notin S THEN i
    ELSE LastNotIn(s, S, i - 1)

\* s.split(sep) for a one-character separator: always at least one part
RECURSIVE split(_, _)
split(s, sep) ==
    LET i == FirstIn(s, {sep}, 1)
    IN  IF i > Len(s) THEN <<s>>
        ELSE <<SubSeq(s, 1, i - 1)>> \o split(SubSeq(s, i + 1, Len(s)), sep)

\* parts.join(sep)
RECURSIVE join(_, _)
join(parts, sep) ==
    IF parts = <<>> THEN <<>>
    ELSE IF Len(parts) = 1 THEN parts[1]
    ELSE parts[1] \o <<sep>> \o join(Tail(parts), sep)

\* s.trim()
trim(s) ==
    LET a == FirstNotIn(s, WhiteSpace, 1)
        b == LastNotIn(s, WhiteSpace, Len(s))
    IN  IF a > Len(s) THEN <<>> ELSE SubSeq(s, a, b)

\* s.substring(1)
substring1(s) == SubSeq(s, 2, Len(s))

\* line.replace(/[...]/g, '') with the class Decoration
stripDecoration(line) == SelectSeq(line, LAMBDA c : c \notin Decoration)

\* const cleanLine = line.replace(/[...]/g, '').trim()
cleanLine(line) == trim(stripDecoration(line))

\* the length of the match of /^\d+\./ in s, 0 when there is none
headerMatch(s) ==
    LET d == FirstNotIn(s, Digit, 1)
    IN  IF d > 1 /\ d <= Len(s) /\ s[d] = "." THEN d ELSE 0

\* /^\d+\./.test(cleanLine)
isHeader(s) == headerMatch(s) > 0

\* cleanLine.replace(/^\d+\.\s*/, '')
stripHeaderPrefix(s) ==
    IF headerMatch(s) = 0 THEN s
    ELSE SubSeq(s, FirstNotIn(s, WhiteSpace, headerMatch(s) + 1), Len(s))

\* cleanLine.startsWith('-')
startsWithDash(s) == Len(s) > 0 /\ s[1] = "-"

\* cleanLine.includes(':')
includesColon(s) == \E i \in 1..Len(s) : s[i] = ":"

\* what map's callback returns for a line it drops
Null == [kind |-> "null", label |-> <<>>, text |-> <<>>]

\* the <h3> of lines 140-146
SectionHeader(c) ==
    [kind |-> "SectionHeader", label |-> <<>>, text |-> stripHeaderPrefix(c)]

\* a value that keeps only the text up to the second colon
MutFieldValue(valueParts) ==
    IF valueParts = <<>> THEN <<>> ELSE trim(valueParts[1])

\* const value = valueParts.join(':').trim()
fieldValue(valueParts) == trim(join(valueParts, ":"))

\* the two spans of lines 151-158
LabeledField(c) ==
    LET parts == split(substring1(c), ":")
    IN  [kind |-> "LabeledField", label |-> trim(parts[1]),
         text |-> fieldValue(Tail(parts))]

\* the bullet of lines 163-168
BulletItem(c) ==
    [kind |-> "BulletItem", label |-> <<>>, text |-> trim(substring1(c))]

\* the <p> of lines 172-176
Paragraph(c) == [kind |-> "Paragraph", label |-> <<>>, text |-> c]

\* the branches with the two dash tests in the other order
MutClassify(c) ==
    IF isHeader(c) THEN SectionHeader(c)
    ELSE IF startsWithDash(c) THEN BulletItem(c)
    ELSE IF startsWithDash(c) /\ includesColon(c) THEN LabeledField(c)
    ELSE Paragraph(c)

\* the branches of the callback, in the order the code tries them
classify(c) ==
    IF isHeader(c) THEN SectionHeader(c)
    ELSE IF startsWithDash(c) /\ includesColon(c) THEN LabeledField(c)
    ELSE IF startsWithDash(c) THEN BulletItem(c)
    ELSE Paragraph(c)

\* the callback given to map, lines 133-177
formatLine(line) ==
    LET c == cleanLine(line)
    IN  IF c = <<>> THEN Null ELSE classify(c)

\* a filter that keeps the dropped lines' nulls
MutFilterBoolean(elems) == elems

\* .filter(Boolean)
filterBoolean(elems) == SelectSeq(elems, LAMBDA e : e # Null)

\* text.split('\n').map(...).filter(Boolean)
formatAnalysis(t) ==
    LET lines == split(t, "\n")
    IN  filterBoolean([i \in 1..Len(lines) |-> formatLine(lines[i])])

\* all sequences over S of length at most n
SeqUpTo(S, n) == UNION {[1..k -> S] : k \in 0..n}

----------------------------------------------------------------------------
(* The Home component, Home.tsx:44-130 and the controls of 196-235 *)

\* a string as the sequence of its characters, for the strings the code inspects
ImageSlash == <<"i", "m", "a", "g", "e", "/">>

Jpeg == ImageSlash \o <<"j", "p", "e", "g">>
Png  == ImageSlash \o <<"p", "n", "g">>
Webp == ImageSlash \o <<"w", "e", "b", "p">>
Gif  == ImageSlash \o <<"g", "i", "f">>
Pdf  == <<"a", "p", "p", "l", "i", "c", "a", "t", "i", "o", "n", "/", "p", "d", "f">>

\* 20 * 1024 * 1024, line 92
SizeLimit == 20 * 1024 * 1024

\* the types the picker's accept attribute lists (line 201; image/jpg names
\* no type a browser reports)
AcceptedTypes == {Jpeg, Png, Webp}

\* the File objects the user may select: a type the accept attribute lists
\* (the code treats the three alike), an image type it does not list, a type
\* that is no image, each at the size limit and one byte over it
FileTypes == {Jpeg, Gif, Pdf}
FileSizes == {SizeLimit, SizeLimit + 1}
Files == [type : FileTypes, size : FileSizes]

\* s.startsWith(prefix)
startsWith(s, prefix) ==
    Len(s) >= Len(prefix) /\ SubSeq(s, 1, Len(prefix)) = prefix

\* values of image: null, and data URLs (a data URL names the type and holds
\* the bytes of what was read)
NullImage == [src |-> "null", type |-> <<>>, size |-> 0]
DefaultImage == [src |-> "default", type |-> Jpeg, size |-> 1]
DataURL(file) == [src |-> "file", type |-> file.type, size |-> file.size]

\* values of analysis: '', DEFAULT_ANALYSIS, and the text analyzeImage
\* resolved with for an image in a given call
EmptyAnalysis == [kind |-> "empty", img |-> NullImage, call |-> 0]
DEFAULT_ANALYSIS == [kind |-> "default", img |-> NullImage, call |-> 0]
Result(imageData, call) == [kind |-> "result", img |-> imageData, call |-> call]

\* how a call of analyzeImage may end: resolved with a text, rejected with an
\* Error that has a message, rejected with a value that is no Error
Outcomes ==
    { [ok |-> TRUE,  isError |-> FALSE, message |-> ""],
      [ok |-> FALSE, isError |-> TRUE,  message |-> "ServiceError"],
      [ok |-> FALSE, isError |-> FALSE, message |-> ""] }

\* err instanceof Error ? err.message : 'Failed to analyze image. Please try again.'
errorMessage(err) ==
    IF err.isError THEN err.message
    ELSE "Failed to analyze image. Please try again."

\* what is displayed, as the user actions that start attempts find it
Displayed == [image |-> image, analysis |-> analysis]

\* room left under the bound on calls, counting the reads that will call
CallBudget == nCalls + Cardinality(readers) < MaxCalls

Init ==
    /\ image = NullImage
    /\ analysis = EmptyAnalysis
    /\ loading = FALSE
    /\ error = "null"
    /\ pcLoad = "mounted"
    /\ readers = {}
    /\ requests = {}
    /\ nFiles = 0
    /\ nCalls = 0
    /\ last = [op |-> "none"]
    /\ text = <<>> /\ segments = <<>> /\ fpc = "input"

\* the catch block of loadDefaultContent, lines 73-77
loadFailed(step) ==
    /\ error' = "Failed to load default image"
    /\ loading' = FALSE
    /\ pcLoad' = "done"
    /\ last' = [op |-> step, ok |-> FALSE]
    /\ UNCHANGED <<image, analysis, readers, requests, nFiles, nCalls>>

\* the effect runs loadDefaultContent up to its first await, lines 51-56, 80
loadDefaultContent ==
    /\ pcLoad = "mounted"
    /\ loading' = TRUE
    /\ pcLoad' = "fetch"
    /\ last' = [op |-> "loadDefaultContent", ok |-> TRUE]
    /\ UNCHANGED <<image, analysis, error, readers, requests, nFiles, nCalls>>

\* fetch settles: lines 56-60; a rejection or !response.ok goes to the catch
fetchSettled(ok) ==
    /\ pcLoad = "fetch"
    /\ IF ok
       THEN /\ pcLoad' = "blob"
            /\ last' = [op |-> "fetchSettled", ok |-> TRUE]
            /\ UNCHANGED <<image, analysis, loading, error, readers, requests,
                           nFiles, nCalls>>
       ELSE loadFailed("fetchSettled")

\* response.blob() settles: lines 60-72; the reader is started
blobSettled(ok) ==
    /\ pcLoad = "blob"
    /\ IF ok
       THEN /\ pcLoad' = "read"
            /\ last' = [op |-> "blobSettled", ok |-> TRUE]
            /\ UNCHANGED <<image, analysis, loading, error, readers, requests,
                           nFiles, nCalls>>
       ELSE loadFailed("blobSettled")

\* the default image's reader ends.  A read that succeeds runs onloadend
\* (62-67); one that fails runs onerror (68-71) and then onloadend, whose
\* reader.result is null.
defaultReaderEnd(ok) ==
    /\ pcLoad = "read"
    /\ image' = IF ok THEN DefaultImage ELSE NullImage
    /\ analysis' = DEFAULT_ANALYSIS
    /\ loading' = FALSE
    /\ error' = IF ok THEN error ELSE "Failed to load default image"
    /\ pcLoad' = "done"
    /\ last' = [op |-> "defaultReaderEnd", ok |-> ok]
    /\ UNCHANGED <<readers, requests, nFiles, nCalls>>

\* a rejection that also clears the analysis shown
MutRejectFile(msg) ==
    /\ error' = msg
    /\ analysis' = EmptyAnalysis
    /\ UNCHANGED <<image, loading, readers, requests, nCalls, pcLoad>>

\* setError(msg); return;  lines 88-89 and 93-94
rejectFile(msg) ==
    /\ error' = msg
    /\ UNCHANGED <<image, analysis, loading, readers, requests, nCalls, pcLoad>>

\* handleImageUpload, lines 83-111, up to reader.readAsDataURL(file).  The
\* input is never disabled; the effect of the first render has run before a
\* change event is handled.  hasFile is false when e.target.files is empty.
handleImageUpload(hasFile, file) ==
    /\ pcLoad # "mounted"
    /\ nFiles < MaxFiles
    /\ nFiles' = nFiles + 1
    /\ IF ~hasFile
       THEN /\ last' = [op |-> "handleImageUpload", n |-> nFiles + 1,
                        outcome |-> "nofile"]
            /\ UNCHANGED <<image, analysis, loading, error, readers, requests,
                           nCalls, pcLoad>>
       ELSE IF ~startsWith(file.type, ImageSlash)
       THEN /\ rejectFile("Please upload a valid image file")
            /\ last' = [op |-> "handleImageUpload", n |-> nFiles + 1,
                        outcome |-> "rejected", file |-> file]
       ELSE IF file.size > SizeLimit
       THEN /\ rejectFile("Image size should be less than 20MB")
            /\ last' = [op |-> "handleImageUpload", n |-> nFiles + 1,
                        outcome |-> "rejected", file |-> file]
       ELSE /\ CallBudget
            /\ readers' = readers \cup
                 {[n |-> nFiles + 1, file |-> file, pre |-> Displayed]}
            /\ last' = [op |-> "handleImageUpload", n |-> nFiles + 1,
                        outcome |-> "reading", file |-> file]
            /\ UNCHANGED <<image, analysis, loading, error, requests, nCalls,
                           pcLoad>>

\* handleAnalyze up to its await, lines 113-118: the call is outstanding
handleAnalyze(imageData, pre) ==
    /\ loading' = TRUE
    /\ error' = "null"
    /\ nCalls' = nCalls + 1
    /\ requests' = requests \cup
         {[call |-> nCalls + 1, imageData |-> imageData, pre |-> pre]}

\* a reader of handleImageUpload ends.  A read that succeeds runs onloadend
\* (98-103); one that fails runs onerror (104-106) and then onloadend, whose
\* reader.result is null.
readerEnd(rd, ok) ==
    /\ rd \in readers
    /\ LET base64String == IF ok THEN DataURL(rd.file) ELSE NullImage
       IN  /\ image' = base64String
           /\ handleAnalyze(base64String, rd.pre)
           /\ last' = [op |-> "readerEnd", ok |-> ok, call |-> nCalls + 1]
    /\ readers' = readers \ {rd}
    /\ UNCHANGED <<analysis, pcLoad, nFiles>>

\* the Identify Flag button, lines 221 and 232-235: rendered when image is
\* set, disabled while loading; onClick calls handleAnalyze(image)
clickIdentify ==
    /\ image # NullImage
    /\ ~loading
    /\ CallBudget
    /\ handleAnalyze(image, Displayed)
    /\ last' = [op |-> "clickIdentify", ok |-> TRUE, call |-> nCalls + 1]
    /\ UNCHANGED <<image, analysis, pcLoad, readers, nFiles>>

\* a finally block that leaves loading as it is
MutSettle(r, o) ==
    /\ r \in requests
    /\ analysis' = IF o.ok THEN Result(r.imageData, r.call) ELSE analysis
    /\ error' = IF o.ok THEN error ELSE errorMessage(o)
    /\ requests' = requests \ {r}
    /\ last' = [op |-> "settle", call |-> r.call, imageData |-> r.imageData,
                pre |-> r.pre, outcome |-> o]
    /\ UNCHANGED <<loading, image, pcLoad, readers, nFiles, nCalls>>

\* analyzeImage settles and handleAnalyze resumes, lines 118-125
settle(r, o) ==
    /\ r \in requests
    /\ analysis' = IF o.ok THEN Result(r.imageData, r.call) ELSE analysis
    /\ error' = IF o.ok THEN error ELSE errorMessage(o)
    /\ loading' = FALSE
    /\ requests' = requests \ {r}
    /\ last' = [op |-> "settle", call |-> r.call, imageData |-> r.imageData,
                pre |-> r.pre, outcome |-> o]
    /\ UNCHANGED <<image, pcLoad, readers, nFiles, nCalls>>

\* the call numbered c settles
settleCall(c) ==
    \E r \in requests : r.call = c /\ \E o \in Outcomes : settle(r, o)

FetchSettled == \E ok \in BOOLEAN : fetchSettled(ok)
BlobSettled == \E ok \in BOOLEAN : blobSettled(ok)
DefaultReaderEnd == \E ok \in BOOLEAN : defaultReaderEnd(ok)
HandleImageUpload ==
    \E hasFile \in BOOLEAN : \E file \in Files : handleImageUpload(hasFile, file)
ReaderEnd == \E rd \in readers : \E ok \in BOOLEAN : readerEnd(rd, ok)
Settle == \E c \in 1..MaxCalls : settleCall(c)

Next ==
    \/ (loadDefaultContent /\ UNCHANGED fmtVars)
    \/ (FetchSettled /\ UNCHANGED fmtVars)
    \/ (BlobSettled /\ UNCHANGED fmtVars)
    \/ (DefaultReaderEnd /\ UNCHANGED fmtVars)
    \/ (HandleImageUpload /\ UNCHANGED fmtVars)
    \/ (ReaderEnd /\ UNCHANGED fmtVars)
    \/ (clickIdentify /\ UNCHANGED fmtVars)
    \/ (Settle /\ UNCHANGED fmtVars)

Spec == Init /\ [][Next]_vars

\* every outstanding call of analyzeImage eventually settles
SpecLive ==
    Spec /\ \A c \in 1..MaxCalls : WF_vars(settleCall(c) /\ UNCHANGED fmtVars)

----------------------------------------------------------------------------
(* The specification of the formatter: any text, then one call. *)

InitFmt ==
    /\ text \in SeqUpTo(Alphabet, MaxLen)
    /\ segments = <<>>
    /\ fpc = "input"
    /\ image = NullImage /\ analysis = EmptyAnalysis
    /\ loading = FALSE /\ error = "null"
    /\ pcLoad = "mounted" /\ readers = {} /\ requests = {}
    /\ nFiles = 0 /\ nCalls = 0 /\ last = [op |-> "none"]

\* {formatAnalysis(analysis)}, line 264
Format ==
    /\ fpc = "input"
    /\ segments' = formatAnalysis(text)
    /\ fpc' = "done"
    /\ UNCHANGED <<text, uiVars>>

NextFmt == Format

SpecFmt == InitFmt /\ [][NextFmt]_vars

----------------------------------------------------------------------------
(* Properties of formatAnalysis, stated over the text and the returned     *)
(* segments without the operators of the model's classify.                 *)

\* the lines of the text
Lines == split(text, "\n")

\* the lines that are non-empty after trimming white space
NonBlankLines == SelectSeq(Lines, LAMBDA l : trim(l) # <<>>)

\* the lines whose clean line is non-empty
CleanLines ==
    LET kept == SelectSeq(Lines, LAMBDA l : cleanLine(l) # <<>>)
    IN  [k \in 1..Len(kept) |-> cleanLine(kept[k])]

Kinds == {"SectionHeader", "LabeledField", "BulletItem", "Paragraph"}

\* c begins with n digits and a period
DigitsThenPeriod(c, n) ==
    /\ n >= 1 /\ n < Len(c)
    /\ \A j \in 1..n : c[j] \in Digit
    /\ c[n + 1] = "."

NumberedLine(c) == \E n \in 1..Len(c) : DigitsThenPeriod(c, n)

DashLine(c) == c # <<>> /\ Head(c) = "-"

HasColon(c) == \E i \in DOMAIN c : c[i] = ":"

\* t is c without its first n+1 characters and the white space after them
AfterPrefix(c, n, t) ==
    \E m \in (n + 2)..(Len(c) + 1) :
        /\ \A j \in (n + 2)..(m - 1) : c[j] \in WhiteSpace
        /\ m <= Len(c) => c[m] \notin WhiteSpace
        /\ t = SubSeq(c, m, Len(c))

\* C5 as the claim states it: formatAnalysis returns one segment for each
\* input line that is non-empty after trimming white space, so the number of
\* segments equals the number of such lines.
C5_OnePerNonBlankLine ==
    fpc = "done" => Len(segments) = Len(NonBlankLines)

\* C5, amended: formatAnalysis returns one segment for each input line whose
\* clean line (decoration characters removed, then trimmed) is non-empty and
\* none for the other lines, and the k-th segment is the one made from the
\* k-th such line.
C5_OnePerCleanLine ==
    fpc = "done" =>
        /\ Len(segments) = Len(CleanLines)
        /\ \A k \in 1..Len(CleanLines) :
              /\ segments[k].kind \in Kinds
              /\ segments[k] = classify(CleanLines[k])

\* a text with a decoration-only line between two lines that give segments
C5_Witness ==
    /\ fpc = "done"
    /\ Len(segments) = 2
    /\ Len(Lines) = 3
    /\ trim(Lines[2]) # <<>> /\ cleanLine(Lines[2]) = <<>>
    /\ segments[1] # segments[2]

\* C6: a clean line that starts with a dash and contains a colon gives a
\* LabeledField split at the first colon: the label is the trimmed text
\* between the dash and the first colon, the value is the trimmed text after
\* the first colon with the later colons kept, and the untrimmed label, a
\* colon and the untrimmed value make up the clean line without its dash.
C6_SplitAtFirstColon ==
    fpc = "done" =>
        \A k \in 1..Len(CleanLines) :
            LET c == CleanLines[k]
                rest == Tail(c)
            IN  (DashLine(c) /\ HasColon(c)) =>
                    /\ k <= Len(segments)
                    /\ segments[k].kind = "LabeledField"
                    /\ \E i \in 1..Len(rest) :
                          /\ rest[i] = ":"
                          /\ \A j \in 1..(i - 1) : rest[j] # ":"
                          /\ segments[k].label = trim(SubSeq(rest, 1, i - 1))
                          /\ segments[k].text =
                                trim(SubSeq(rest, i + 1, Len(rest)))
                          /\ split(rest, ":")[1] \o <<":">>
                                \o join(Tail(split(rest, ":")), ":") = rest

\* a LabeledField whose value holds a colon
C6_Witness ==
    /\ fpc = "done"
    /\ \E k \in 1..Len(segments) :
          /\ segments[k].kind = "LabeledField"
          /\ segments[k].label # <<>>
          /\ HasColon(segments[k].text)

\* C7: every non-empty clean line gives exactly one segment of exactly one
\* kind: digits and a period first give a SectionHeader titled with the rest
\* after the prefix and its white space; otherwise a leading dash gives a
\* LabeledField when the line has a colon and a BulletItem with the trimmed
\* rest (empty for a lone dash) when it has none; anything else gives a
\* Paragraph equal to the clean line.
C7_ClassificationTotalExclusive ==
    fpc = "done" =>
        /\ Len(segments) = Len(CleanLines)
        /\ \A k \in 1..Len(CleanLines) :
              LET c == CleanLines[k]
                  seg == segments[k]
              IN  /\ seg.kind \in Kinds
                  /\ seg.kind = "SectionHeader" <=> NumberedLine(c)
                  /\ seg.kind = "LabeledField" <=>
                        (~NumberedLine(c) /\ DashLine(c) /\ HasColon(c))
                  /\ seg.kind = "BulletItem" <=>
                        (~NumberedLine(c) /\ DashLine(c) /\ ~HasColon(c))
                  /\ seg.kind = "Paragraph" <=>
                        (~NumberedLine(c) /\ ~DashLine(c))
                  /\ seg.kind = "SectionHeader" =>
                        \E n \in 1..Len(c) :
                            /\ DigitsThenPeriod(c, n)
                            /\ AfterPrefix(c, n, seg.text)
                  /\ seg.kind = "BulletItem" => seg.text = trim(Tail(c))
                  /\ seg.kind = "Paragraph" => seg.text = c
                  /\ c = <<"-">> => seg.kind = "BulletItem" /\ seg.text = <<>>

\* a header with a title followed by a lone dash
C7_Witness ==
    /\ fpc = "done"
    /\ Len(segments) = 2
    /\ segments[1].kind = "SectionHeader" /\ segments[1].text # <<>>
    /\ segments[2].kind = "BulletItem" /\ segments[2].text = <<>>

----------------------------------------------------------------------------
(* Properties of the Home component. *)

\* the startup load is between its start and its end
LoadOutstanding == pcLoad \in {"fetch", "blob", "read"}

\* the last step was handleImageUpload with a file outside the accepted set
OutsideAcceptedSet(l) ==
    /\ l.op = "handleImageUpload"
    /\ l.outcome # "nofile"
    /\ (l.file.type \notin AcceptedTypes \/ l.file.size > SizeLimit)

\* the analysis is the one produced for the image
Paired(img, an) ==
    \/ an.kind = "result" /\ an.img = img
    \/ an.kind = "default" /\ img = DefaultImage
    \/ an.kind = "empty" /\ img = NullImage

\* C1 as the claim states it: at most one analyzeImage call is outstanding
\* at any time.
C1_AtMostOneOutstanding == Cardinality(requests) <= 1

\* C2 as the claim states it: when an attempt's analyzeImage call rejects,
\* image and analysis are what they were just before the user action that
\* started the attempt.
C2_FailedAttemptRestoresDisplay ==
    (last.op = "settle" /\ ~last.outcome.ok) => Displayed = last.pre

\* C3: a step of handleImageUpload that rejects its file (the type is no
\* image type, or the size is over the limit) sets error to a message and
\* starts no read and no call, leaving image, analysis and loading alone.
C3_RejectionLeavesStateAlone ==
    [][ ( /\ last'.op = "handleImageUpload"
          /\ nFiles' = nFiles + 1
          /\ last'.outcome # "nofile"
          /\ ( ~startsWith(last'.file.type, ImageSlash)
               \/ last'.file.size > SizeLimit ) )
        => ( /\ error' \in { "Please upload a valid image file",
                             "Image size should be less than 20MB" }
             /\ UNCHANGED <<image, analysis, loading, readers, requests,
                            nCalls>> ) ]_vars

\* a file was rejected while an image and its analysis were on display
C3_Witness ==
    /\ last.op = "handleImageUpload"
    /\ last.outcome = "rejected"
    /\ last.file.size > SizeLimit
    /\ error = "Image size should be less than 20MB"
    /\ image.src = "file"
    /\ analysis.kind = "result"
    /\ ~loading

\* C4 as the claim states it: only files of type JPEG, PNG or WEBP and of at
\* most 20 MB are read and sent for analysis, and every other selected file
\* is rejected with an error message.
C4_OnlyAcceptedSetIsRead ==
    /\ \A rd \in readers :
          rd.file.type \in AcceptedTypes /\ rd.file.size <= SizeLimit
    /\ \A r \in requests :
          r.imageData.src = "file" =>
              r.imageData.type \in AcceptedTypes /\ r.imageData.size <= SizeLimit
    /\ OutsideAcceptedSet(last) => (last.outcome = "rejected" /\ error # "null")

\* C8 as the claim states it: loading is true exactly while an analyzeImage
\* call or the startup load is outstanding.
C8_LoadingIffOutstanding ==
    loading <=> (requests # {} \/ LoadOutstanding)

\* C9: every handleAnalyze call eventually ends in a state where loading is
\* false and either analysis is the text returned for the call's image or
\* error is the failure's message (the fixed message of line 121 when what
\* was thrown is no Error); every step that starts a call sets
\* loading and clears error; and after a call has ended a file selection
\* can start a read, and a click can start a call when an image is shown
\* (while the model's bounds leave room).
C9_AttemptsEndAndRetry ==
    /\ \A c \in 1..MaxCalls :
          (\E r \in requests : r.call = c)
            ~> ( /\ last.op = "settle" /\ last.call = c
                 /\ ~loading
                 /\ last.outcome.ok =>
                        analysis = Result(last.imageData, c)
                 /\ (~last.outcome.ok /\ last.outcome.isError) =>
                        error = last.outcome.message
                 /\ (~last.outcome.ok /\ ~last.outcome.isError) =>
                        error = "Failed to analyze image. Please try again." )
    /\ [][ nCalls' # nCalls =>
             ( /\ loading' /\ error' = "null"
               /\ \E r \in requests' \ requests : r.call = nCalls' ) ]_vars
    /\ []( (last.op = "settle" /\ CallBudget) =>
             /\ nFiles < MaxFiles =>
                  ENABLED (HandleImageUpload /\ readers' # readers)
             /\ image # NullImage => ENABLED clickIdentify )

\* a call that failed with the service's message has ended, and a retry is open
C9_Witness ==
    /\ last.op = "settle"
    /\ ~last.outcome.ok
    /\ error = "ServiceError"
    /\ ~loading
    /\ image # NullImage
    /\ CallBudget

\* C10 as the claim states it: when no call and no load is outstanding and
\* error is null, the analysis shown is the one produced for the image shown.
C10_ImageAnalysisPaired ==
    (requests = {} /\ ~LoadOutstanding /\ error = "null")
        => Paired(image, analysis)

====
